---- MODULE Spec2Model ----
(***************************************************************************)
(* A model of the CAPI client (src/client.go): one Client, the injected     *)
(* transport (Doer) answering each request with any response it likes.     *)
(* Spec runs one call; Shared runs two calls on the one Client, their      *)
(* steps interleaved.                                                      *)
(*                                                                         *)
(* Strings are sequences of symbols.  The symbols h t p s : / ? & = are    *)
(* the characters themselves; every other symbol stands for a run of       *)
(* characters that holds none of : / ? & = and is no part of an occurrence *)
(* of "https" (a host name, a guid, a path word, a query key or value).    *)
(***************************************************************************)
EXTENDS Integers, Sequences, FiniteSets, TLC

VARIABLES client, ctxDone, op, arg, pc, stage, addr, acc, env,
          reqs, resps, bodies, sleeps, waits, ret, other

vars == <<client, ctxDone, op, arg, pc, stage, addr, acc, env,
          reqs, resps, bodies, sleeps, waits, ret, other>>

----------------------------------------------------------------------------
(* Bounds of the model *)

\* the transport is handed at most this many requests in one call
MaxRequests == 3

----------------------------------------------------------------------------
(* Strings *)

HTTPS == <<"h", "t", "t", "p", "s">>
HTTP == <<"h", "t", "t", "p">>

HasPrefix(s, p) == Len(s) >= Len(p) /\ SubSeq(s, 1, Len(p)) = p

\* strings.Index(s, sub): the first position (1-based) of sub in s, 0 if none
Index(s, sub) ==
  LET hits == { i \in 1..(Len(s) - Len(sub) + 1) : SubSeq(s, i, i + Len(sub) - 1) = sub }
  IN  IF hits = {} THEN 0 ELSE CHOOSE i \in hits : \A j \in hits : i <= j

\* a faulty variant: every occurrence of "https" is left alone
ReplaceHttps_Off(s) == s

\* strings.Replace(s, "https", "http", 1): the FIRST occurrence of "https",
\* wherever it is in s, becomes "http"
ReplaceHttps(s) ==
  LET i == Index(s, HTTPS)
  IN  IF i = 0 THEN s
      ELSE SubSeq(s, 1, i - 1) \o HTTP \o SubSeq(s, i + Len(HTTPS), Len(s))

----------------------------------------------------------------------------
(* URLs: net/url as the client uses it *)

Special == {":", "/", "?", "&", "="}

\* the first position of s holding a symbol of set S, 0 if none
FirstIn(s, S) ==
  LET hits == { i \in 1..Len(s) : s[i] \in S }
  IN  IF hits = {} THEN 0 ELSE CHOOSE i \in hits : \A j \in hits : i <= j

Tail0(s, i) == SubSeq(s, i, Len(s))

NoURL == [ok |-> FALSE, scheme |-> <<>>, opaque |-> <<>>, host |-> <<>>,
          path |-> <<>>, query |-> <<>>]

\* url.Parse(s): scheme up to the first ":" when only scheme characters come
\* before it ("missing protocol scheme" when the colon is first), the query
\* after the first "?", the authority between "//" and the next "/", the
\* rest the path; a scheme followed by no "/" leaves an opaque URL
Parse(s) ==
  LET i      == FirstIn(s, Special)
      colon  == i > 0 /\ s[i] = ":"
      scheme == IF colon THEN SubSeq(s, 1, i - 1) ELSE <<>>
      rest   == IF colon THEN Tail0(s, i + 1) ELSE s
      q      == Index(rest, <<"?">>)
      hier   == IF q = 0 THEN rest ELSE SubSeq(rest, 1, q - 1)
      query  == IF q = 0 THEN <<>> ELSE Tail0(rest, q + 1)
      auth   == Tail0(hier, 3)
      slash  == Index(auth, <<"/">>)
  IN  IF colon /\ i = 1 THEN NoURL
      ELSE IF ~HasPrefix(hier, <<"/">>) /\ scheme # <<>>
        THEN [ok |-> TRUE, scheme |-> scheme, opaque |-> hier, host |-> <<>>,
              path |-> <<>>, query |-> query]
      ELSE IF HasPrefix(hier, <<"/", "/">>)
        THEN [ok |-> TRUE, scheme |-> scheme, opaque |-> <<>>,
              host  |-> IF slash = 0 THEN auth ELSE SubSeq(auth, 1, slash - 1),
              path  |-> IF slash = 0 THEN <<>> ELSE Tail0(auth, slash),
              query |-> query]
      ELSE [ok |-> TRUE, scheme |-> scheme, opaque |-> <<>>, host |-> <<>>,
            path |-> hier, query |-> query]

\* the byte order of the symbols, for sorting query keys
Alphabet == <<"&", "/", "1", "2", ":", "=", "?", "a", "h", "k", "p", "s", "t", "x">>

Rank(c) == IF \E i \in 1..Len(Alphabet) : Alphabet[i] = c
           THEN CHOOSE i \in 1..Len(Alphabet) : Alphabet[i] = c
           ELSE Len(Alphabet) + 1

RECURSIVE StrLess(_, _)
StrLess(a, b) ==
  IF b = <<>> THEN FALSE
  ELSE IF a = <<>> THEN TRUE
  ELSE IF Rank(a[1]) # Rank(b[1]) THEN Rank(a[1]) < Rank(b[1])
  ELSE StrLess(Tail(a), Tail(b))

\* strings.Split(s, c)
RECURSIVE Split(_, _)
Split(s, c) ==
  LET i == Index(s, <<c>>)
  IN  IF i = 0 THEN <<s>> ELSE <<SubSeq(s, 1, i - 1)>> \o Split(Tail0(s, i + 1), c)

\* url.ParseQuery(raw): the key/value pairs in order of appearance, empty
\* pieces skipped, a piece without "=" a key with an empty value
ParseQuery(raw) ==
  LET pieces == SelectSeq(Split(raw, "&"), LAMBDA x : x # <<>>)
      pair(x) == LET e == Index(x, <<"=">>)
                 IN  IF e = 0 THEN <<x, <<>> >>
                     ELSE <<SubSeq(x, 1, e - 1), Tail0(x, e + 1)>>
  IN  [i \in 1..Len(pieces) |-> pair(pieces[i])]

\* the pairs of a caller's map[string][]string, key by key, each key's values
\* in order (the order of the keys is lost again in Encode)
RECURSIVE QueryPairs(_)
QueryPairs(query) ==
  IF query = <<>> THEN <<>>
  ELSE [i \in 1..Len(query[1][2]) |-> <<query[1][1], query[1][2][i]>>]
       \o QueryPairs(Tail(query))

RECURSIVE SortedKeys(_)
SortedKeys(K) ==
  IF K = {} THEN <<>>
  ELSE LET k == CHOOSE x \in K : \A y \in K \ {x} : StrLess(x, y)
       IN  <<k>> \o SortedKeys(K \ {k})

RECURSIVE JoinAmp(_)
JoinAmp(ps) ==
  IF ps = <<>> THEN <<>>
  ELSE ps[1][1] \o <<"=">> \o ps[1][2]
       \o (IF Len(ps) = 1 THEN <<>> ELSE <<"&">> \o JoinAmp(Tail(ps)))

RECURSIVE Flatten(_)
Flatten(ss) == IF ss = <<>> THEN <<>> ELSE ss[1] \o Flatten(Tail(ss))

\* url.Values.Encode(): "k=v&k=v", sorted by key, a key's values in the
\* order they were added
Encode(pairs) ==
  LET keys  == SortedKeys({ pairs[i][1] : i \in 1..Len(pairs) })
      of(k) == SelectSeq(pairs, LAMBDA p : p[1] = k)
  IN  JoinAmp(Flatten([i \in 1..Len(keys) |-> of(keys[i])]))

----------------------------------------------------------------------------
(* Values *)

\* http.StatusOK, required of every read
StatusOK == 200
\* the status required of the POST that creates a task
StatusAccepted == 202
\* a status no operation accepts
StatusOther == 500

Statuses == {StatusOK, StatusAccepted, StatusOther}

BaseHTTP  == HTTP  \o <<":", "/", "/", "a">>
BaseHTTPS == HTTPS \o <<":", "/", "/", "a">>
BaseBad   == <<":", ":">>
\* the addresses NewClient is given
AddrSet == {BaseHTTP, BaseHTTPS, BaseBad}

DefaultApp   == <<"d">>
DefaultSpace == <<"sp">>
CallerApp    == <<"g">>
AppName      == <<"n">>
TaskGuid     == <<"t">>
\* the appGuid a caller passes: none or its own
AppGuids     == {<<>>, CallerApp}

\* the queries a caller of ListTasks passes: none, one key with one value,
\* two keys
QuerySet == { <<>>,
              << <<<<"x">>, << <<"1">> >> >> >>,
              << <<<<"x">>, << <<"1">> >> >>, <<<<"k">>, << <<"2">> >> >> >> }

\* the intervals a caller of CreateTask passes
Intervals == {1, 2}

HrefSecure == HTTPS \o <<":", "/", "/", "a", "/", "p", "?", "x", "=", "2">>
HrefPlain  == HTTP \o <<":", "/", "/", "a", "/", "p">>
HrefLater  == HTTP \o <<":", "/", "/", "a", "/">> \o HTTPS
HrefBad    == <<":", ":">>
\* the links a response may carry; <<>> is the absent or empty link
Hrefs == {<<>>, HrefSecure, HrefPlain, HrefLater, HrefBad}
\* the next links a page may carry
NextHrefs == {<<>>, HrefSecure, HrefPlain, HrefBad}

NoLinks == <<>>
Link(h, m) == [href |-> h, method |-> m]
Res1 == [guid |-> <<"1">>, state |-> "RUNNING", links |-> NoLinks]
Res2 == [guid |-> <<"2">>, state |-> "SUCCEEDED",
         links |-> [k \in {"self", "cancel"} |->
                      IF k = "self" THEN Link(HrefSecure, "")
                      ELSE Link(HrefLater, "POST")]]
\* the records of a list page (Process, ProcessStats or Task, by operation):
\* the guid, the state and the links of the record
Resources == {Res1, Res2}

\* the resource lists a page may carry
ResLists == {<<>>, <<Res1>>, <<Res1, Res2>>}

\* a response body: its bytes cannot be read, or there are none, or they are
\* not the JSON expected, or they decode to val (the fields the operation reads)
Unreadable == [kind |-> "unreadable", val |-> <<>>]
EmptyBody  == [kind |-> "empty", val |-> <<>>]
Invalid    == [kind |-> "invalid", val |-> <<>>]
Json(v)    == [kind |-> "json", val |-> v]

PageBodies == { Json([next |-> h, resources |-> rs]) : h \in NextHrefs, rs \in ResLists }
TaskStates == {"RUNNING", "FAILED", "SUCCEEDED", "PENDING", ""}
EnvelopeBodies == { Json([state |-> st, self |-> h]) : st \in TaskStates, h \in Hrefs }
TaskBodies == { Json(t) : t \in Resources }
AppBodies == { Json([resources |-> gs]) :
                 gs \in {<<>>, << <<>> >>, << <<"g1">> >>, << <<"g1">>, <<"g2">> >>} }
DropletBodies == { Json([guid |-> g, package |-> h]) :
                     g \in {<<>>, <<"dg">>}, h \in {<<>>, HrefSecure, HrefLater, HrefBad} }
PackageBodies == { Json([guid |-> g, download |-> h]) :
                     g \in {<<>>, <<"pg">>}, h \in {<<>>, HrefSecure, HrefLater} }
\* the "var" member of the environment: absent (a nil map) or a map
NoVar == [present |-> FALSE, map |-> <<>>]
SomeVar == [present |-> TRUE, map |-> [k \in {"K"} |-> "V"]]
EnvVarBodies == { Json([var |-> v]) : v \in {NoVar, SomeVar} }

ErrResp == [err |-> TRUE, status |-> 0, body |-> EmptyBody]
Broken == {Unreadable, EmptyBody, Invalid}

\* what the transport may answer: an error, the required status with any
\* body of the shape, or another status with a broken or a well-formed body
Responses(required, shape, good) ==
  {ErrResp}
  \cup { [err |-> FALSE, status |-> required, body |-> b] : b \in shape \cup Broken }
  \cup { [err |-> FALSE, status |-> st, body |-> b] :
           st \in Statuses \ {required}, b \in Broken \cup {good} }

\* errors
NilErr == [kind |-> "nil", code |-> 0]
Err(k) == [kind |-> k, code |-> 0]
\* fmt.Errorf("unexpected status code %d: %s", resp.StatusCode, data)
StatusErr(c) == [kind |-> "status", code |-> c]

----------------------------------------------------------------------------
(* Response bodies as resources *)

\* present: there is a body (the transport gave a response); closes: the
\* calls of Close; drained: a read made to empty the body reached its end
\* while the body was open (a decode stops at the end of the JSON value, it
\* does not read on to the end of the body); late: the body was read after
\* it was closed
NewBody(r) == [present |-> ~r.err, kind |-> r.body.kind, closes |-> 0,
               drained |-> FALSE, late |-> FALSE]

\* io.Copy(ioutil.Discard, body) or ioutil.ReadAll(body)
Drain(b) ==
  IF ~b.present THEN b
  ELSE IF b.closes > 0 THEN [b EXCEPT !.late = TRUE]
  ELSE IF b.kind = "unreadable" THEN b
  ELSE [b EXCEPT !.drained = TRUE]

\* body.Close()
Close(b) == IF b.present THEN [b EXCEPT !.closes = @ + 1] ELSE b

\* the deferred func of every response received: drain, then close
RunDefers(bs) == [i \in 1..Len(bs) |-> Close(Drain(bs[i]))]

----------------------------------------------------------------------------
(* The client *)

\* NewClient(addr, appGuid, spaceGuid, d)
NewClient(a, app, space) ==
  [addr |-> ReplaceHttps(a), appGuid |-> app, spaceGuid |-> space]

\* the arguments of a call: the guid or name given, the query of ListTasks,
\* the interval of CreateTask
NoArg == [appGuid |-> <<>>, query |-> <<>>, interval |-> 0]

\* the arguments, the local variables and the position of the call that runs,
\* with the requests it issued and the responses it got
Locals ==
  [op |-> op, arg |-> arg, pc |-> pc, stage |-> stage, addr |-> addr,
   acc |-> acc, env |-> env, reqs |-> reqs, resps |-> resps,
   bodies |-> bodies, sleeps |-> sleeps, waits |-> waits, ret |-> ret]

\* a call that has not begun
NoCall ==
  [op |-> "none", arg |-> NoArg, pc |-> "idle", stage |-> 0, addr |-> <<>>,
   acc |-> <<>>, env |-> [state |-> "", self |-> <<>>], reqs |-> <<>>,
   resps |-> <<>>, bodies |-> <<>>, sleeps |-> 0, waits |-> <<>>,
   ret |-> [err |-> NilErr, val |-> <<>>]]

\* the arguments callers pass: a guid or a name (or none, for the Client's
\* own app), for ListTasks a query, for CreateTask an interval
Args ==
  { [NoArg EXCEPT !.appGuid = g] : g \in {<<>>, CallerApp, TaskGuid, AppName} }
  \cup { [appGuid |-> g, query |-> q, interval |-> 0] : g \in AppGuids, q \in QuerySet }
  \cup { [NoArg EXCEPT !.interval = d] : d \in Intervals }

\* a Client as NewClient returns it and a caller about to call one of its
\* methods with the arguments arg; o: the other caller, if there is one
InitWith(o) ==
  /\ \E a \in AddrSet : client = NewClient(a, DefaultApp, DefaultSpace)
  /\ ctxDone = FALSE
  /\ op = "none"
  /\ arg \in Args
  /\ pc = "idle"
  /\ stage = 0
  /\ addr = <<>>
  /\ acc = <<>>
  /\ env = [state |-> "", self |-> <<>>]
  /\ reqs = <<>>
  /\ resps = <<>>
  /\ bodies = <<>>
  /\ sleeps = 0
  /\ waits = <<>>
  /\ ret = [err |-> NilErr, val |-> <<>>]
  /\ other = o

Init == InitWith(NoCall)

\* a faulty variant: the request is not bound to the caller's context
Request_Background(m, u) ==
  [method |-> m, scheme |-> u.scheme, opaque |-> u.opaque, host |-> u.host,
   path |-> u.path, query |-> u.query, ctxErr |-> FALSE]

\* &http.Request{URL: u, Method: m, ...}.WithContext(ctx), handed to doer.Do
Request(m, u) ==
  [method |-> m, scheme |-> u.scheme, opaque |-> u.opaque, host |-> u.host,
   path |-> u.path, query |-> u.query, ctxErr |-> ctxDone]

NoReq == Request("", NoURL)

\* the outcomes of a step of a call: a request is handed to the transport,
\* the call sleeps, or it returns; no step assigns to a field of the Client
Send(r, a, ac, bs) ==
  [next |-> "inflight", req |-> r, addr |-> a, acc |-> ac, bodies |-> bs,
   env |-> env, stage |-> stage, err |-> NilErr, val |-> <<>>,
   client |-> client]
Return(e, v, bs) ==
  [next |-> "done", req |-> NoReq, addr |-> addr, acc |-> acc, bodies |-> bs,
   env |-> env, stage |-> stage, err |-> e, val |-> v, client |-> client]
\* time.Sleep(interval)
Sleep(bs) ==
  [next |-> "sleep", req |-> NoReq, addr |-> addr, acc |-> acc, bodies |-> bs,
   env |-> env, stage |-> stage, err |-> NilErr, val |-> <<>>,
   client |-> client, wait |-> arg.interval]

\* the step taken: the deferred functions run when the call returns
Apply(o) ==
  /\ o.next = "inflight" => Len(reqs) < MaxRequests
  /\ pc' = o.next
  /\ reqs' = IF o.next = "inflight" THEN Append(reqs, o.req) ELSE reqs
  /\ addr' = o.addr
  /\ acc' = o.acc
  /\ env' = o.env
  /\ stage' = o.stage
  /\ bodies' = IF o.next = "done" THEN RunDefers(o.bodies) ELSE o.bodies
  /\ sleeps' = IF o.next = "sleep" THEN sleeps + 1 ELSE sleeps
  /\ waits' = IF o.next = "sleep" THEN Append(waits, o.wait) ELSE waits
  /\ ret' = IF o.next = "done" THEN [err |-> o.err, val |-> o.val] ELSE ret
  /\ client' = o.client
  /\ UNCHANGED other

\* a call begins: the method name is called with the arguments a
Begin(name, a) ==
  /\ pc = "idle"
  /\ arg = a
  /\ op' = name
  /\ UNCHANGED <<ctxDone, arg, resps>>

\* doer.Do(req) returns r
Receive(name, st, r) ==
  /\ pc = "inflight"
  /\ op = name
  /\ stage = st
  /\ resps' = Append(resps, r)
  /\ UNCHANGED <<ctxDone, op, arg>>

----------------------------------------------------------------------------
(* Processes, ProcessStats, ListTasks: the list operations *)

ProcessesPath(g) == <<"/", "v3", "/", "apps", "/">> \o g \o <<"/", "processes">>
StatsPath(g)     == <<"/", "v3", "/", "processes", "/">> \o g \o <<"/", "stats">>
TasksPath(g)     == <<"/", "v3", "/", "apps", "/">> \o g \o <<"/", "tasks">>

\* a faulty variant: an address that does not parse ends the loop with what
\* was gathered
ProcessesPage_SkipsBadLink(a, ac, bs) ==
  LET u == Parse(a)
  IN  IF ~u.ok THEN Return(NilErr, ac, bs)
      ELSE Send(Request("GET", [u EXCEPT !.path = ProcessesPath(arg.appGuid)]),
                a, ac, bs)

\* the top of the loop of Processes: the request for the page at address a
ProcessesPage(a, ac, bs) ==
  LET u == Parse(a)
  IN  IF ~u.ok THEN Return(Err("url"), <<>>, bs)
      ELSE Send(Request("GET", [u EXCEPT !.path = ProcessesPath(arg.appGuid)]),
                a, ac, bs)

\* a faulty variant: the links of the processes are rewritten like those of a
\* task
ProcessesResponse_FixLinks(r) ==
  LET bs == Append(bodies, NewBody(r))
      n  == Len(bs)
      fix(p) == [p EXCEPT !.links =
                   [k \in DOMAIN p.links |->
                      Link(ReplaceHttps(p.links[k].href), p.links[k].method)]]
  IN  IF r.err THEN Return(Err("transport"), <<>>, bs)
      ELSE IF r.status # StatusOK
        THEN Return(StatusErr(r.status), <<>>, [bs EXCEPT ![n] = Drain(@)])
      ELSE IF r.body.kind # "json" THEN Return(Err("decode"), <<>>, bs)
      ELSE LET next == ReplaceHttps(r.body.val.next)
               rs   == r.body.val.resources
               ac   == acc \o [i \in 1..Len(rs) |-> fix(rs[i])]
           IN  IF next # <<>> THEN ProcessesPage(next, ac, bs)
               ELSE Return(NilErr, ac, bs)

\* a faulty variant: the resources of the last page are not appended
ProcessesResponse_DropLast(r) ==
  LET bs == Append(bodies, NewBody(r))
      n  == Len(bs)
  IN  IF r.err THEN Return(Err("transport"), <<>>, bs)
      ELSE IF r.status # StatusOK
        THEN Return(StatusErr(r.status), <<>>, [bs EXCEPT ![n] = Drain(@)])
      ELSE IF r.body.kind # "json" THEN Return(Err("decode"), <<>>, bs)
      ELSE LET next == ReplaceHttps(r.body.val.next)
               ac   == acc \o r.body.val.resources
           IN  IF next # <<>> THEN ProcessesPage(next, ac, bs)
               ELSE Return(NilErr, acc, bs)

\* the rest of the loop body of Processes, on the response r
ProcessesResponse(r) ==
  LET bs == Append(bodies, NewBody(r))
      n  == Len(bs)
  IN  IF r.err THEN Return(Err("transport"), <<>>, bs)
      ELSE IF r.status # StatusOK
        THEN Return(StatusErr(r.status), <<>>, [bs EXCEPT ![n] = Drain(@)])
      ELSE IF r.body.kind # "json" THEN Return(Err("decode"), <<>>, bs)
      ELSE LET next == ReplaceHttps(r.body.val.next)
               ac   == acc \o r.body.val.resources
           IN  IF next # <<>> THEN ProcessesPage(next, ac, bs)
               ELSE Return(NilErr, ac, bs)

\* the top of the loop of ProcessStats
ProcessStatsPage(a, ac, bs) ==
  LET u == Parse(a)
  IN  IF ~u.ok THEN Return(Err("url"), <<>>, bs)
      ELSE Send(Request("GET", [u EXCEPT !.path = StatsPath(arg.appGuid)]),
                a, ac, bs)

\* the rest of the loop body of ProcessStats, on the response r
ProcessStatsResponse(r) ==
  LET bs == Append(bodies, NewBody(r))
      n  == Len(bs)
  IN  IF r.err THEN Return(Err("transport"), <<>>, bs)
      ELSE IF r.status # StatusOK
        THEN Return(StatusErr(r.status), <<>>, [bs EXCEPT ![n] = Drain(@)])
      ELSE IF r.body.kind # "json" THEN Return(Err("decode"), <<>>, bs)
      ELSE LET next == ReplaceHttps(r.body.val.next)
               ac   == acc \o r.body.val.resources
           IN  IF next # <<>> THEN ProcessStatsPage(next, ac, bs)
               ELSE Return(NilErr, ac, bs)

\* a faulty variant: only the first value of the caller's query is added
ListTasksPage_FirstOnly(a, ac, bs) ==
  LET u == Parse(a)
      ps == QueryPairs(arg.query)
      q == ParseQuery(u.query) \o (IF ps = <<>> THEN <<>> ELSE <<ps[1]>>)
  IN  IF ~u.ok THEN Return(Err("url"), <<>>, bs)
      ELSE Send(Request("GET", [u EXCEPT !.path = TasksPath(arg.appGuid),
                                         !.query = Encode(q)]),
                a, ac, bs)

\* the top of the loop of ListTasks: the caller's query is added to the
\* query of the address on every turn of the loop
ListTasksPage(a, ac, bs) ==
  LET u == Parse(a)
      q == ParseQuery(u.query) \o QueryPairs(arg.query)
  IN  IF ~u.ok THEN Return(Err("url"), <<>>, bs)
      ELSE Send(Request("GET", [u EXCEPT !.path = TasksPath(arg.appGuid),
                                         !.query = Encode(q)]),
                a, ac, bs)

\* a faulty variant: an error on a page returns the tasks gathered so far
ListTasksResponse_Partial(r) ==
  LET bs == Append(bodies, NewBody(r))
      n  == Len(bs)
  IN  IF r.err THEN Return(Err("transport"), acc, bs)
      ELSE IF r.status # StatusOK
        THEN Return(StatusErr(r.status), acc, [bs EXCEPT ![n] = Drain(@)])
      ELSE IF r.body.kind # "json" THEN Return(Err("decode"), acc, bs)
      ELSE LET next == r.body.val.next
               ac   == acc \o r.body.val.resources
           IN  IF next # <<>> THEN ListTasksPage(next, ac, bs)
               ELSE Return(NilErr, ac, bs)

\* the rest of the loop body of ListTasks: the next link is followed as it
\* came, the tasks are appended as they were decoded
ListTasksResponse(r) ==
  LET bs == Append(bodies, NewBody(r))
      n  == Len(bs)
  IN  IF r.err THEN Return(Err("transport"), <<>>, bs)
      ELSE IF r.status # StatusOK
        THEN Return(StatusErr(r.status), <<>>, [bs EXCEPT ![n] = Drain(@)])
      ELSE IF r.body.kind # "json" THEN Return(Err("decode"), <<>>, bs)
      ELSE LET next == r.body.val.next
               ac   == acc \o r.body.val.resources
           IN  IF next # <<>> THEN ListTasksPage(next, ac, bs)
               ELSE Return(NilErr, ac, bs)

GoodPage == Json([next |-> <<>>, resources |-> <<Res1>>])

Processes ==
  \E g \in AppGuids :
    /\ Begin("Processes", [NoArg EXCEPT !.appGuid = g])
    /\ Apply(ProcessesPage(client.addr, <<>>, <<>>))

ProcessesDo ==
  \E r \in Responses(StatusOK, PageBodies, GoodPage) :
    /\ Receive("Processes", 0, r)
    /\ Apply(ProcessesResponse(r))

ProcessStats ==
  /\ Begin("ProcessStats", [appGuid |-> CallerApp, query |-> <<>>, interval |-> 0])
  /\ Apply(ProcessStatsPage(client.addr, <<>>, <<>>))

ProcessStatsDo ==
  \E r \in Responses(StatusOK, PageBodies, GoodPage) :
    /\ Receive("ProcessStats", 0, r)
    /\ Apply(ProcessStatsResponse(r))

ListTasks ==
  \E g \in AppGuids, q \in QuerySet :
    /\ Begin("ListTasks", [appGuid |-> g, query |-> q, interval |-> 0])
    /\ Apply(ListTasksPage(client.addr, <<>>, <<>>))

ListTasksDo ==
  \E r \in Responses(StatusOK, PageBodies, GoodPage) :
    /\ Receive("ListTasks", 0, r)
    /\ Apply(ListTasksResponse(r))

----------------------------------------------------------------------------
(* CreateTask: the task poller *)

\* CreateTask up to the POST
CreateTaskStart ==
  LET u == Parse(client.addr)
  IN  IF ~u.ok THEN Return(Err("url"), <<>>, <<>>)
      ELSE Send(Request("POST", [u EXCEPT !.path = TasksPath(client.appGuid)]),
                addr, acc, <<>>)

\* a faulty variant: the wait grows with every poll
CreateTaskLoop_Backoff(r, bs) ==
  LET n == Len(bs)
  IN  IF r.body.kind # "json" THEN Return(Err("decode"), <<>>, bs)
      ELSE LET results == [state |-> r.body.val.state,
                           self  |-> ReplaceHttps(r.body.val.self)]
               closed  == [bs EXCEPT ![n] = Close(@)]
           IN  CASE results.state = "RUNNING" ->
                      [Sleep(closed) EXCEPT !.env = results,
                                            !.wait = arg.interval * (sleeps + 1)]
                 [] results.state = "FAILED" ->
                      [Return(Err("task failed"), <<>>, closed) EXCEPT !.env = results]
                 [] OTHER ->
                      [Return(NilErr, <<>>, closed) EXCEPT !.env = results]

\* a faulty variant: an envelope that does not decode is asked for again
CreateTaskLoop_SkipsBad(r, bs) ==
  LET n == Len(bs)
  IN  IF r.body.kind # "json" THEN Sleep(bs)
      ELSE LET results == [state |-> r.body.val.state,
                           self  |-> ReplaceHttps(r.body.val.self)]
               closed  == [bs EXCEPT ![n] = Close(@)]
           IN  CASE results.state = "RUNNING" ->
                      [Sleep(closed) EXCEPT !.env = results]
                 [] results.state = "FAILED" ->
                      [Return(Err("task failed"), <<>>, closed) EXCEPT !.env = results]
                 [] OTHER ->
                      [Return(NilErr, <<>>, closed) EXCEPT !.env = results]

\* a faulty variant: the polling stops with an error after the first poll
CreateTaskLoop_GivesUp(r, bs) ==
  LET n == Len(bs)
  IN  IF r.body.kind # "json" THEN Return(Err("decode"), <<>>, bs)
      ELSE LET results == [state |-> r.body.val.state,
                           self  |-> ReplaceHttps(r.body.val.self)]
               closed  == [bs EXCEPT ![n] = Close(@)]
           IN  CASE results.state = "RUNNING" /\ sleeps = 0 ->
                      [Sleep(closed) EXCEPT !.env = results]
                 [] results.state \in {"RUNNING", "FAILED"} ->
                      [Return(Err("task failed"), <<>>, closed) EXCEPT !.env = results]
                 [] OTHER ->
                      [Return(NilErr, <<>>, closed) EXCEPT !.env = results]

\* a faulty variant: PENDING is polled like RUNNING
CreateTaskLoop_PendingWaits(r, bs) ==
  LET n == Len(bs)
  IN  IF r.body.kind # "json" THEN Return(Err("decode"), <<>>, bs)
      ELSE LET results == [state |-> r.body.val.state,
                           self  |-> ReplaceHttps(r.body.val.self)]
               closed  == [bs EXCEPT ![n] = Close(@)]
           IN  CASE results.state \in {"RUNNING", "PENDING"} ->
                      [Sleep(closed) EXCEPT !.env = results]
                 [] results.state = "FAILED" ->
                      [Return(Err("task failed"), <<>>, closed) EXCEPT !.env = results]
                 [] OTHER ->
                      [Return(NilErr, <<>>, closed) EXCEPT !.env = results]

\* a faulty variant: FAILED is no case of the switch and falls to the default
CreateTaskLoop_NoFailed(r, bs) ==
  LET n == Len(bs)
  IN  IF r.body.kind # "json" THEN Return(Err("decode"), <<>>, bs)
      ELSE LET results == [state |-> r.body.val.state,
                           self  |-> ReplaceHttps(r.body.val.self)]
               closed  == [bs EXCEPT ![n] = Close(@)]
           IN  CASE results.state = "RUNNING" ->
                      [Sleep(closed) EXCEPT !.env = results]
                 [] OTHER ->
                      [Return(NilErr, <<>>, closed) EXCEPT !.env = results]

\* one turn of the for loop of CreateTask on the response r, the last of bs:
\* decode the envelope, rewrite the self link, close the body, switch on the
\* state
CreateTaskLoop(r, bs) ==
  LET n == Len(bs)
  IN  IF r.body.kind # "json" THEN Return(Err("decode"), <<>>, bs)
      ELSE LET results == [state |-> r.body.val.state,
                           self  |-> ReplaceHttps(r.body.val.self)]
               closed  == [bs EXCEPT ![n] = Close(@)]
           IN  CASE results.state = "RUNNING" ->
                      [Sleep(closed) EXCEPT !.env = results]
                 [] results.state = "FAILED" ->
                      [Return(Err("task failed"), <<>>, closed) EXCEPT !.env = results]
                 [] OTHER ->
                      [Return(NilErr, <<>>, closed) EXCEPT !.env = results]

\* a faulty variant: the status of the POST response is not looked at
CreateTaskPosted_NoGate(r) ==
  LET bs == Append(bodies, NewBody(r))
  IN  IF r.err THEN Return(Err("transport"), <<>>, bs)
      ELSE CreateTaskLoop(r, bs)

\* CreateTask on the response to the POST
CreateTaskPosted(r) ==
  LET bs == Append(bodies, NewBody(r))
      n  == Len(bs)
  IN  IF r.err THEN Return(Err("transport"), <<>>, bs)
      ELSE IF r.status # StatusAccepted
        THEN Return(StatusErr(r.status), <<>>, [bs EXCEPT ![n] = Drain(@)])
      ELSE CreateTaskLoop(r, bs)

\* a faulty variant: the poll repeats the POST
CreateTaskPoll_Post ==
  LET u == Parse(env.self)
  IN  IF ~u.ok THEN Return(Err("url"), <<>>, bodies)
      ELSE [Send(Request("POST", u), addr, acc, bodies) EXCEPT !.stage = 1]

\* CreateTask after time.Sleep(interval): the GET of the self link
CreateTaskPoll ==
  LET u == Parse(env.self)
  IN  IF ~u.ok THEN Return(Err("url"), <<>>, bodies)
      ELSE [Send(Request("GET", u), addr, acc, bodies) EXCEPT !.stage = 1]

\* CreateTask on the response to a poll: its status is not looked at
CreateTaskPolled(r) ==
  LET bs == Append(bodies, NewBody(r))
  IN  IF r.err THEN Return(Err("transport"), <<>>, bs)
      ELSE CreateTaskLoop(r, bs)

GoodEnvelope == Json([state |-> "SUCCEEDED", self |-> <<>>])

CreateTask ==
  \E d \in Intervals :
    /\ Begin("CreateTask", [NoArg EXCEPT !.interval = d])
    /\ Apply(CreateTaskStart)

CreateTaskDo ==
  \E r \in Responses(StatusAccepted, EnvelopeBodies, GoodEnvelope) :
    /\ Receive("CreateTask", 0, r)
    /\ Apply(CreateTaskPosted(r))

\* the sleep of CreateTask ends
CreateTaskWake ==
  /\ pc = "sleep"
  /\ op = "CreateTask"
  /\ Apply(CreateTaskPoll)
  /\ UNCHANGED <<ctxDone, op, arg, resps>>

CreateTaskPollDo ==
  \E r \in Responses(StatusOK, EnvelopeBodies, GoodEnvelope) :
    /\ Receive("CreateTask", 1, r)
    /\ Apply(CreateTaskPolled(r))

----------------------------------------------------------------------------
(* GetTask, RunTask *)

TaskPath(g) == <<"/", "v3", "/", "tasks", "/">> \o g

\* a faulty variant: an empty method is left empty
FixLinks_NoDefault(t) ==
  [t EXCEPT !.links =
     [k \in DOMAIN t.links |->
        Link(ReplaceHttps(t.links[k].href), t.links[k].method)]]

\* the loop over task.Links: every href rewritten, an empty method made GET
FixLinks(t) ==
  [t EXCEPT !.links =
     [k \in DOMAIN t.links |->
        Link(ReplaceHttps(t.links[k].href),
             IF t.links[k].method = "" THEN "GET" ELSE t.links[k].method)]]

NoTask == <<>>

GetTaskStart ==
  LET u == Parse(client.addr)
  IN  IF ~u.ok THEN Return(Err("url"), NoTask, <<>>)
      ELSE Send(Request("GET", [u EXCEPT !.path = TaskPath(arg.appGuid)]),
                addr, acc, <<>>)

GetTaskResponse(r) ==
  LET bs == Append(bodies, NewBody(r))
      n  == Len(bs)
  IN  IF r.err THEN Return(Err("transport"), NoTask, bs)
      ELSE IF r.status # StatusOK
        THEN Return(StatusErr(r.status), NoTask, [bs EXCEPT ![n] = Drain(@)])
      ELSE IF r.body.kind # "json" THEN Return(Err("decode"), NoTask, bs)
      ELSE Return(NilErr, FixLinks(r.body.val), bs)

\* RunTask up to the POST: the client's app guid when the caller gives none
RunTaskStart ==
  LET u == Parse(client.addr)
      g == IF arg.appGuid = <<>> THEN client.appGuid ELSE arg.appGuid
  IN  IF ~u.ok THEN Return(Err("url"), NoTask, <<>>)
      ELSE Send(Request("POST", [u EXCEPT !.path = TasksPath(g)]), addr, acc, <<>>)

\* a faulty variant: a task reported RUNNING is fetched again by its self link
RunTaskResponse_Poll(r) ==
  LET bs == Append(bodies, NewBody(r))
      n  == Len(bs)
  IN  IF r.err THEN Return(Err("transport"), NoTask, bs)
      ELSE IF r.status # StatusAccepted
        THEN Return(StatusErr(r.status), NoTask, [bs EXCEPT ![n] = Drain(@)])
      ELSE IF r.body.kind # "json" THEN Return(Err("decode"), NoTask, bs)
      ELSE IF r.body.val.state = "RUNNING"
        THEN Send(Request("GET", [Parse(client.addr) EXCEPT !.path = TaskPath(r.body.val.guid)]),
                  addr, acc, bs)
      ELSE Return(NilErr, FixLinks(r.body.val), bs)

RunTaskResponse(r) ==
  LET bs == Append(bodies, NewBody(r))
      n  == Len(bs)
  IN  IF r.err THEN Return(Err("transport"), NoTask, bs)
      ELSE IF r.status # StatusAccepted
        THEN Return(StatusErr(r.status), NoTask, [bs EXCEPT ![n] = Drain(@)])
      ELSE IF r.body.kind # "json" THEN Return(Err("decode"), NoTask, bs)
      ELSE Return(NilErr, FixLinks(r.body.val), bs)

GoodTask == Json(Res1)

GetTask ==
  /\ Begin("GetTask", [appGuid |-> TaskGuid, query |-> <<>>, interval |-> 0])
  /\ Apply(GetTaskStart)

GetTaskDo ==
  \E r \in Responses(StatusOK, TaskBodies, GoodTask) :
    /\ Receive("GetTask", 0, r)
    /\ Apply(GetTaskResponse(r))

RunTask ==
  \E g \in AppGuids :
    /\ Begin("RunTask", [appGuid |-> g, query |-> <<>>, interval |-> 0])
    /\ Apply(RunTaskStart)

RunTaskDo ==
  \E r \in Responses(StatusAccepted, TaskBodies, GoodTask) :
    /\ Receive("RunTask", 0, r)
    /\ Apply(RunTaskResponse(r))

----------------------------------------------------------------------------
(* GetAppGuid, GetDropletGuid, GetPackageGuid, GetEnvironmentVariables *)

\* fmt.Sprintf("%s/v2/apps?q=name%%3A%s&q=space_guid%%3A%s", c.addr, appName, c.spaceGuid)
AppsURL(name) ==
  client.addr \o <<"/", "v2", "/", "apps", "?", "q", "=", "name%3A">> \o name
              \o <<"&", "q", "=", "space_guid%3A">> \o client.spaceGuid

\* fmt.Sprintf("%s/v3/apps/%s/droplets/current", c.addr, appGuid)
DropletURL(g) ==
  client.addr \o <<"/", "v3", "/", "apps", "/">> \o g \o <<"/", "droplets", "/", "current">>

EnvPath(g) == <<"/", "v3", "/", "apps", "/">> \o g \o <<"/", "environment_variables">>

\* the check of the status in GetAppGuid, GetDropletGuid and GetPackageGuid:
\* the error of a failed read of the body is returned in place of the status
ReadStatusErr(r) ==
  IF r.body.kind = "unreadable" THEN Err("read") ELSE StatusErr(r.status)

GetAppGuidStart ==
  LET u == Parse(AppsURL(arg.appGuid))
  IN  IF ~u.ok THEN Return(Err("url"), <<>>, <<>>)
      ELSE Send(Request("GET", u), addr, acc, <<>>)

\* the end of GetAppGuid: no match is "empty results", else the guid of the
\* first match, whatever it is
GetAppGuidResult(res) ==
  IF Len(res) = 0 THEN [err |-> Err("empty results"), val |-> <<>>]
  ELSE [err |-> NilErr, val |-> res[1]]

GetAppGuidResponse(r) ==
  LET bs == Append(bodies, NewBody(r))
      n  == Len(bs)
  IN  IF r.err THEN Return(Err("transport"), <<>>, bs)
      ELSE IF r.status # StatusOK
        THEN Return(ReadStatusErr(r), <<>>, [bs EXCEPT ![n] = Drain(@)])
      ELSE IF r.body.kind # "json" THEN Return(Err("decode"), <<>>, bs)
      ELSE LET x == GetAppGuidResult(r.body.val.resources)
           IN  Return(x.err, x.val, bs)

GetDropletGuidStart ==
  LET u == Parse(DropletURL(arg.appGuid))
  IN  IF ~u.ok THEN Return(Err("url"), <<>>, <<>>)
      ELSE Send(Request("GET", u), addr, acc, <<>>)

GetDropletGuidResponse(r) ==
  LET bs == Append(bodies, NewBody(r))
      n  == Len(bs)
  IN  IF r.err THEN Return(Err("transport"), <<>>, bs)
      ELSE IF r.status # StatusOK
        THEN Return(ReadStatusErr(r), <<>>, [bs EXCEPT ![n] = Drain(@)])
      ELSE IF r.body.kind # "json" THEN Return(Err("decode"), <<>>, bs)
      ELSE IF r.body.val.guid = <<>> THEN Return(Err("empty results"), <<>>, bs)
      ELSE Return(NilErr, r.body.val.guid, bs)

NoPackage == [guid |-> <<>>, dl |-> <<>>]

\* a faulty variant: the client's app guid when the caller gives none
GetPackageGuidStart_DefaultApp ==
  LET g == IF arg.appGuid = <<>> THEN client.appGuid ELSE arg.appGuid
      u == Parse(DropletURL(g))
  IN  IF ~u.ok THEN Return(Err("url"), NoPackage, <<>>)
      ELSE Send(Request("GET", u), addr, acc, <<>>)

GetPackageGuidStart ==
  LET u == Parse(DropletURL(arg.appGuid))
  IN  IF ~u.ok THEN Return(Err("url"), NoPackage, <<>>)
      ELSE Send(Request("GET", u), addr, acc, <<>>)

\* a faulty variant: the package link followed is kept in the Client's addr
GetPackageGuidDroplet_KeepsAddr(r) ==
  LET bs == Append(bodies, NewBody(r))
      n  == Len(bs)
  IN  IF r.err THEN Return(Err("transport"), NoPackage, bs)
      ELSE IF r.status # StatusOK
        THEN Return(ReadStatusErr(r), NoPackage, [bs EXCEPT ![n] = Drain(@)])
      ELSE IF r.body.kind # "json" THEN Return(Err("decode"), NoPackage, bs)
      ELSE IF r.body.val.package = <<>>
        THEN Return(Err("empty results"), NoPackage, bs)
      ELSE LET href == ReplaceHttps(r.body.val.package)
               u    == Parse(href)
           IN  IF ~u.ok THEN Return(Err("url"), NoPackage, bs)
               ELSE [Send(Request("GET", u), href, acc, bs)
                       EXCEPT !.stage = 1, !.client.addr = href]

\* GetPackageGuid on the current droplet: the GET of its package link
GetPackageGuidDroplet(r) ==
  LET bs == Append(bodies, NewBody(r))
      n  == Len(bs)
  IN  IF r.err THEN Return(Err("transport"), NoPackage, bs)
      ELSE IF r.status # StatusOK
        THEN Return(ReadStatusErr(r), NoPackage, [bs EXCEPT ![n] = Drain(@)])
      ELSE IF r.body.kind # "json" THEN Return(Err("decode"), NoPackage, bs)
      ELSE IF r.body.val.package = <<>>
        THEN Return(Err("empty results"), NoPackage, bs)
      ELSE LET href == ReplaceHttps(r.body.val.package)
               u    == Parse(href)
           IN  IF ~u.ok THEN Return(Err("url"), NoPackage, bs)
               ELSE [Send(Request("GET", u), href, acc, bs) EXCEPT !.stage = 1]

\* a faulty variant: a failed request for the package is tried again
GetPackageGuidPackage_Retry(r) ==
  LET bs == Append(bodies, NewBody(r))
      n  == Len(bs)
  IN  IF r.err THEN Send(Request("GET", Parse(addr)), addr, acc, bs)
      ELSE IF r.status # StatusOK
        THEN Return(ReadStatusErr(r), NoPackage, [bs EXCEPT ![n] = Drain(@)])
      ELSE IF r.body.kind # "json" THEN Return(Err("decode"), NoPackage, bs)
      ELSE IF r.body.val.guid = <<>> \/ r.body.val.download = <<>>
        THEN Return(Err("empty results"), NoPackage, bs)
      ELSE Return(NilErr, [guid |-> r.body.val.guid,
                           dl   |-> ReplaceHttps(r.body.val.download)], bs)

\* GetPackageGuid on the package
GetPackageGuidPackage(r) ==
  LET bs == Append(bodies, NewBody(r))
      n  == Len(bs)
  IN  IF r.err THEN Return(Err("transport"), NoPackage, bs)
      ELSE IF r.status # StatusOK
        THEN Return(ReadStatusErr(r), NoPackage, [bs EXCEPT ![n] = Drain(@)])
      ELSE IF r.body.kind # "json" THEN Return(Err("decode"), NoPackage, bs)
      ELSE IF r.body.val.guid = <<>> \/ r.body.val.download = <<>>
        THEN Return(Err("empty results"), NoPackage, bs)
      ELSE Return(NilErr, [guid |-> r.body.val.guid,
                           dl   |-> ReplaceHttps(r.body.val.download)], bs)

\* GetEnvironmentVariables up to the GET: the client's app guid when the
\* caller gives none
GetEnvironmentVariablesStart ==
  LET u == Parse(client.addr)
      g == IF arg.appGuid = <<>> THEN client.appGuid ELSE arg.appGuid
  IN  IF ~u.ok THEN Return(Err("url"), NoVar, <<>>)
      ELSE Send(Request("GET", [u EXCEPT !.path = EnvPath(g)]), addr, acc, <<>>)

GetEnvironmentVariablesResponse(r) ==
  LET bs == Append(bodies, NewBody(r))
      n  == Len(bs)
  IN  IF r.err THEN Return(Err("transport"), NoVar, bs)
      ELSE IF r.status # StatusOK
        THEN Return(StatusErr(r.status), NoVar, [bs EXCEPT ![n] = Drain(@)])
      ELSE IF r.body.kind # "json" THEN Return(Err("decode"), NoVar, bs)
      ELSE Return(NilErr, r.body.val.var, bs)

GoodApp     == Json([resources |-> << <<"g1">> >>])
GoodDroplet == Json([guid |-> <<"dg">>, package |-> HrefSecure])
GoodPackage == Json([guid |-> <<"pg">>, download |-> HrefSecure])
GoodEnvVar  == Json([var |-> SomeVar])

GetAppGuid ==
  /\ Begin("GetAppGuid", [appGuid |-> AppName, query |-> <<>>, interval |-> 0])
  /\ Apply(GetAppGuidStart)

GetAppGuidDo ==
  \E r \in Responses(StatusOK, AppBodies, GoodApp) :
    /\ Receive("GetAppGuid", 0, r)
    /\ Apply(GetAppGuidResponse(r))

GetDropletGuid ==
  \E g \in AppGuids :
    /\ Begin("GetDropletGuid", [NoArg EXCEPT !.appGuid = g])
    /\ Apply(GetDropletGuidStart)

GetDropletGuidDo ==
  \E r \in Responses(StatusOK, DropletBodies, GoodDroplet) :
    /\ Receive("GetDropletGuid", 0, r)
    /\ Apply(GetDropletGuidResponse(r))

GetPackageGuid ==
  \E g \in AppGuids :
    /\ Begin("GetPackageGuid", [NoArg EXCEPT !.appGuid = g])
    /\ Apply(GetPackageGuidStart)

GetPackageGuidDo ==
  \E r \in Responses(StatusOK, DropletBodies, GoodDroplet) :
    /\ Receive("GetPackageGuid", 0, r)
    /\ Apply(GetPackageGuidDroplet(r))

GetPackageGuidPackageDo ==
  \E r \in Responses(StatusOK, PackageBodies, GoodPackage) :
    /\ Receive("GetPackageGuid", 1, r)
    /\ Apply(GetPackageGuidPackage(r))

GetEnvironmentVariables ==
  \E g \in AppGuids :
    /\ Begin("GetEnvironmentVariables", [appGuid |-> g, query |-> <<>>, interval |-> 0])
    /\ Apply(GetEnvironmentVariablesStart)

GetEnvironmentVariablesDo ==
  \E r \in Responses(StatusOK, EnvVarBodies, GoodEnvVar) :
    /\ Receive("GetEnvironmentVariables", 0, r)
    /\ Apply(GetEnvironmentVariablesResponse(r))

\* the caller's context is cancelled
Cancel ==
  /\ ~ctxDone
  /\ pc # "done"
  /\ ctxDone' = TRUE
  /\ UNCHANGED <<client, op, arg, pc, stage, addr, acc, env, reqs, resps,
                 bodies, sleeps, waits, ret, other>>

Next ==
  \/ Processes \/ ProcessesDo
  \/ ProcessStats \/ ProcessStatsDo
  \/ ListTasks \/ ListTasksDo
  \/ CreateTask \/ CreateTaskDo \/ CreateTaskWake \/ CreateTaskPollDo
  \/ GetTask \/ GetTaskDo
  \/ RunTask \/ RunTaskDo
  \/ GetAppGuid \/ GetAppGuidDo
  \/ GetDropletGuid \/ GetDropletGuidDo
  \/ GetPackageGuid \/ GetPackageGuidDo \/ GetPackageGuidPackageDo
  \/ GetEnvironmentVariables \/ GetEnvironmentVariablesDo
  \/ Cancel

Spec == Init /\ [][Next]_vars

\* two calls on the one Client, each in its own goroutine: the scheduler
\* leaves the call that runs where it is and goes on with the other one
Switch ==
  /\ other # Locals
  /\ other' = Locals
  /\ op' = other.op
  /\ arg' = other.arg
  /\ pc' = other.pc
  /\ stage' = other.stage
  /\ addr' = other.addr
  /\ acc' = other.acc
  /\ env' = other.env
  /\ reqs' = other.reqs
  /\ resps' = other.resps
  /\ bodies' = other.bodies
  /\ sleeps' = other.sleeps
  /\ waits' = other.waits
  /\ ret' = other.ret
  /\ UNCHANGED <<client, ctxDone>>

NextShared ==
  \/ RunTask \/ RunTaskDo
  \/ GetPackageGuid \/ GetPackageGuidDo \/ GetPackageGuidPackageDo
  \/ Switch

\* the other caller is about to call with arguments of its own
InitShared == \E b \in Args : InitWith([NoCall EXCEPT !.arg = b])

Shared == InitShared /\ [][NextShared]_vars

\* CreateTask alone
NextLive ==
  \/ CreateTask \/ CreateTaskDo \/ CreateTaskWake \/ CreateTaskPollDo
  \/ Cancel

\* doer.Do(req) returns to CreateTask: the call leaves the transport, by
\* CreateTaskDo or by CreateTaskPollDo
DoReturns ==
  /\ pc = "inflight"
  /\ op = "CreateTask"
  /\ pc' \in {"sleep", "done"}

\* time.Sleep(interval) returns to CreateTask, by CreateTaskWake; the model
\* goes no further once MaxRequests requests were issued
SleepReturns ==
  /\ pc = "sleep"
  /\ op = "CreateTask"
  /\ Len(reqs) < MaxRequests
  /\ pc' \in {"inflight", "done"}

\* the transport answers every request it is given and every sleep ends
Live ==
  /\ Init
  /\ [][NextLive]_vars
  /\ WF_pc(DoReturns)
  /\ WF_pc(SleepReturns)

----------------------------------------------------------------------------
(* Properties *)

Done == pc = "done"
ListOps == {"Processes", "ProcessStats", "ListTasks"}
GuidOps == {"GetAppGuid", "GetDropletGuid", "GetPackageGuid"}

\* the status an operation requires of its first response
Required(o) == IF o \in {"CreateTask", "RunTask"} THEN StatusAccepted ELSE StatusOK

\* response i is a status-200 page that decodes
IsPage(i) ==
  /\ ~resps[i].err
  /\ resps[i].status = StatusOK
  /\ resps[i].body.kind = "json"

NextOf(i) == resps[i].body.val.next

\* the responses of the call are a finished chain of pages: every page but
\* the last has a next link, the last has none
PageChain ==
  /\ op \in ListOps
  /\ Done
  /\ Len(resps) >= 1
  /\ \A i \in 1..Len(resps) : IsPage(i) /\ (NextOf(i) = <<>> <=> i = Len(resps))

RECURSIVE Concat(_)
Concat(n) == IF n = 0 THEN <<>> ELSE Concat(n - 1) \o resps[n].body.val.resources

\* C1: Processes, ProcessStats and ListTasks, served a finished chain of
\* well-formed status-200 pages, return with a nil error the resources of all
\* pages, in page order and in the order within each page, having issued
\* exactly one request per page.
C1_PagesConcatenated ==
  PageChain =>
    /\ ret.err = NilErr
    /\ ret.val = Concat(Len(resps))
    /\ Len(reqs) = Len(resps)

C1_Witness ==
  /\ PageChain
  /\ op = "Processes"
  /\ Len(resps) = MaxRequests
  /\ Len(ret.val) > Len(resps)

\* response i of CreateTask is an envelope the loop decodes: the POST
\* response must have passed the status check, a poll response need not
IsEnvelope(i) ==
  /\ ~resps[i].err
  /\ resps[i].body.kind = "json"
  /\ i = 1 => resps[i].status = StatusAccepted

StateOf(i) == resps[i].body.val.state

\* the number of envelopes that report RUNNING
RunningCount ==
  Cardinality({ i \in 1..Len(resps) : IsEnvelope(i) /\ StateOf(i) = "RUNNING" })

\* the number of GET requests issued after the POST
PollCount ==
  Cardinality({ i \in 2..Len(reqs) : reqs[i].method = "GET" })

\* CreateTask has returned from a task reported RUNNING some times and then
\* SUCCEEDED
RanThenSucceeded ==
  /\ op = "CreateTask"
  /\ Done
  /\ Len(resps) >= 1
  /\ \A i \in 1..Len(resps) : IsEnvelope(i)
  /\ \A i \in 1..(Len(resps) - 1) : StateOf(i) = "RUNNING"
  /\ StateOf(Len(resps)) = "SUCCEEDED"

\* C2 as stated: a task reported RUNNING N times and then SUCCEEDED makes
\* CreateTask issue exactly N+1 GET requests after the POST and return nil.
C2_Original ==
  RanThenSucceeded => PollCount = RunningCount + 1 /\ ret.err = NilErr

\* C2, amended: a task reported RUNNING N times (the POST response counted)
\* and then SUCCEEDED makes CreateTask issue exactly N GET requests after the
\* POST, one after each RUNNING envelope, and return a nil error.
C2_PollsPerRunning ==
  RanThenSucceeded =>
    /\ PollCount = RunningCount
    /\ Len(reqs) = RunningCount + 1
    /\ reqs[1].method = "POST"
    /\ ret.err = NilErr

C2_Witness ==
  /\ RanThenSucceeded
  /\ RunningCount = MaxRequests - 1
  /\ PollCount = RunningCount

\* C3: as soon as an envelope decoded by CreateTask reports FAILED, CreateTask
\* has returned the "task failed" error and no request follows that response.
C3_FailedStops ==
  op = "CreateTask" =>
    \A i \in 1..Len(resps) :
      (IsEnvelope(i) /\ StateOf(i) = "FAILED") =>
        /\ Done
        /\ ret.err = Err("task failed")
        /\ i = Len(resps)
        /\ Len(reqs) = i

C3_Witness ==
  /\ op = "CreateTask"
  /\ Done
  /\ Len(resps) = MaxRequests
  /\ IsEnvelope(Len(resps))
  /\ StateOf(Len(resps)) = "FAILED"
  /\ ret.err = Err("task failed")

\* C4: once the context is cancelled while CreateTask sleeps between polls,
\* CreateTask issues no further request: its next step is to return.
C4_CancelEndsSleep ==
  [][(pc = "sleep" /\ ctxDone) => (reqs' = reqs /\ pc' \in {"sleep", "done"})]_vars

\* the first response has a status other than the one required
WrongStatus ==
  /\ Len(resps) >= 1
  /\ ~resps[1].err
  /\ resps[1].status # Required(op)

\* C5 as stated: a first response with a status other than the required one
\* makes the operation return an error holding that status, whatever the
\* body, and issue no further request.
C5_Original ==
  WrongStatus =>
    /\ Done
    /\ ret.err = StatusErr(resps[1].status)
    /\ Len(reqs) = 1

\* C5, amended: a first response with a status other than the required one
\* makes the operation return a non-nil error and issue no further request;
\* the error holds the status, except that GetAppGuid, GetDropletGuid and
\* GetPackageGuid return the read error when the body cannot be read.
C5_StatusGate ==
  WrongStatus =>
    /\ Done
    /\ Len(reqs) = 1
    /\ Len(resps) = 1
    /\ ret.err # NilErr
    /\ IF op \in GuidOps /\ resps[1].body.kind = "unreadable"
       THEN ret.err = Err("read")
       ELSE ret.err = StatusErr(resps[1].status)

C5_Witness ==
  /\ WrongStatus
  /\ op = "CreateTask"
  /\ resps[1].status = StatusOK
  /\ resps[1].body = GoodEnvelope
  /\ ret.err = StatusErr(StatusOK)

\* the rewrite of the scheme alone: a leading "https" becomes "http"
SchemeOnly(h) ==
  IF HasPrefix(h, HTTPS) THEN HTTP \o Tail0(h, Len(HTTPS) + 1) ELSE h

\* C6: a link handed back to the caller is the link of the response with a
\* leading "https" made "http" and nothing else changed (the download link
\* of GetPackageGuid, the links of the Task of GetTask and RunTask).
C6_SchemeOnlyRewritten ==
  (Done /\ ret.err = NilErr) =>
    /\ op = "GetPackageGuid" =>
         ret.val.dl = SchemeOnly(resps[2].body.val.download)
    /\ op \in {"GetTask", "RunTask"} =>
         \A k \in DOMAIN ret.val.links :
           ret.val.links[k].href = SchemeOnly(resps[1].body.val.links[k].href)

\* the first response is status 200 and its JSON lacks what the operation
\* needs
NothingFound ==
  /\ Len(resps) >= 1
  /\ ~resps[1].err
  /\ resps[1].status = StatusOK
  /\ resps[1].body.kind = "json"
  /\ CASE op = "GetAppGuid" ->
            \/ resps[1].body.val.resources = <<>>
            \/ resps[1].body.val.resources[1] = <<>>
       [] op = "GetDropletGuid" -> resps[1].body.val.guid = <<>>
       [] op = "GetPackageGuid" -> resps[1].body.val.package = <<>>
       [] OTHER -> FALSE

\* the first response is status 200 and has no body at all
NoBody ==
  /\ Len(resps) >= 1
  /\ ~resps[1].err
  /\ resps[1].status = StatusOK
  /\ resps[1].body.kind = "empty"

\* C7: GetAppGuid, GetDropletGuid and GetPackageGuid answer a status-200
\* response that lacks what they need with the "empty results" error (with
\* some error when there is no body at all), and never return an empty guid
\* or link with a nil error.
C7_EmptyResults ==
  (op \in GuidOps /\ Done) =>
    /\ NothingFound => ret.err = Err("empty results")
    /\ NoBody => ret.err # NilErr
    /\ ret.err = NilErr =>
         IF op = "GetPackageGuid"
         THEN ret.val.guid # <<>> /\ ret.val.dl # <<>>
         ELSE ret.val # <<>>

\* C8: every request of ListTasks after the first carries exactly the query
\* of the next link it follows.
C8_QueryOnlyOnFirst ==
  op = "ListTasks" =>
    \A i \in 2..Len(reqs) : reqs[i].query = Parse(NextOf(i - 1)).query

\* C9: every request of Processes and ProcessStats after the first has the
\* host, the path and the query of the next link it follows.
C9_NextLinkVerbatim ==
  op \in {"Processes", "ProcessStats"} =>
    \A i \in 2..Len(reqs) :
      LET u == Parse(NextOf(i - 1))
      IN  reqs[i].host = u.host /\ reqs[i].path = u.path /\ reqs[i].query = u.query

\* the link of response i that request i + 1 follows
Followed(i) ==
  CASE op \in ListOps -> NextOf(i)
    [] op = "CreateTask" -> resps[i].body.val.self
    [] op = "GetPackageGuid" -> resps[i].body.val.package
    [] OTHER -> <<>>

\* C10: a request that follows a link starting with "https" is issued over
\* "http".
C10_FollowedOverHttp ==
  \A i \in 2..Len(reqs) :
    HasPrefix(Followed(i - 1), HTTPS) => reqs[i].scheme = HTTP

\* C11 as stated: when the context was cancelled before the call, the first
\* request handed to the transport carries the cancelled context, and the
\* call returns on the answer to that request with an error, whatever the
\* answer: no page and no poll cycle is completed.
C11_Original ==
  [][ /\ (pc = "idle" /\ ctxDone /\ pc' = "inflight") =>
           (Len(reqs') = 1 /\ reqs'[1].ctxErr)
      /\ (pc = "inflight" /\ Len(reqs) = 1 /\ reqs[1].ctxErr /\ Len(resps') = 1) =>
           (pc' = "done" /\ ret'.err # NilErr /\ reqs' = reqs) ]_vars

\* C11, amended: when the context was cancelled before the call, the first
\* request handed to the transport carries the cancelled context; and when
\* the transport answers that request with an error, the call returns a
\* non-nil error at once, having issued that one request.
C11_CancelledFirstRequest ==
  [][ /\ (pc = "idle" /\ ctxDone /\ pc' = "inflight") =>
           (Len(reqs') = 1 /\ reqs'[1].ctxErr)
      /\ (/\ pc = "inflight" /\ Len(reqs) = 1 /\ reqs[1].ctxErr
          /\ Len(resps') = 1 /\ resps'[1].err) =>
           (pc' = "done" /\ ret'.err # NilErr /\ reqs' = reqs) ]_vars

C11_Witness ==
  /\ op = "Processes"
  /\ Done
  /\ Len(reqs) = 1
  /\ reqs[1].ctxErr
  /\ Len(resps) = 1
  /\ resps[1].err
  /\ ret.err = Err("transport")

\* C12: once the transport has answered a request with an error, whichever
\* request of the call it is, the operation has returned a non-nil error and
\* no request follows.
C12_NoRetry ==
  \A i \in 1..Len(resps) :
    resps[i].err =>
      /\ Done
      /\ ret.err # NilErr
      /\ i = Len(resps)
      /\ Len(reqs) = i

C12_Witness ==
  /\ op = "GetPackageGuid"
  /\ Done
  /\ Len(resps) = 2
  /\ resps[2].err
  /\ Len(reqs) = 2
  /\ ret.err = Err("transport")

\* C13: Processes, ProcessStats and ListTasks return the empty list with
\* every non-nil error, whatever earlier pages had gathered.
C13_PartialDiscarded ==
  (op \in ListOps /\ Done /\ ret.err # NilErr) => ret.val = <<>>

C13_Witness ==
  /\ op = "ListTasks"
  /\ Done
  /\ Len(resps) >= 2
  /\ acc # <<>>
  /\ ret.err # NilErr
  /\ ret.val = <<>>

\* body b has been emptied (as far as it can be read) and closed
Released(b) ==
  b.present => (b.closes >= 1 /\ (b.drained \/ b.kind = "unreadable"))

\* C14: when an operation has returned, every response body the transport
\* gave during the call has been drained and closed.
C14_BodiesReleased ==
  Done => \A i \in 1..Len(bodies) : Released(bodies[i])

\* C15: the Task returned by GetTask and RunTask has the link keys of the
\* decoded task, no href that starts with "https", method GET where the
\* decoded link had no method, and the decoded method elsewhere.
C15_TaskLinksFixed ==
  (op \in {"GetTask", "RunTask"} /\ Done /\ ret.err = NilErr) =>
    LET t == resps[1].body.val
    IN  /\ DOMAIN ret.val.links = DOMAIN t.links
        /\ \A k \in DOMAIN t.links :
             /\ ~HasPrefix(ret.val.links[k].href, HTTPS)
             /\ ret.val.links[k].method =
                  IF t.links[k].method = "" THEN "GET" ELSE t.links[k].method

C15_Witness ==
  /\ op = "RunTask"
  /\ Done
  /\ ret.err = NilErr
  /\ resps[1].body.val = Res2
  /\ ret.val.links["self"].method = "GET"
  /\ ret.val.links["cancel"].method = "POST"
  /\ HasPrefix(ret.val.links["self"].href, HTTP \o <<":">>)

\* C16: every Task returned by ListTasks has no link href that starts with
\* "https" and no link without a method.
C16_ListedTaskLinksFixed ==
  (op = "ListTasks" /\ Done /\ ret.err = NilErr) =>
    \A j \in 1..Len(ret.val) :
      \A k \in DOMAIN ret.val[j].links :
        /\ ~HasPrefix(ret.val[j].links[k].href, HTTPS)
        /\ ret.val[j].links[k].method # ""

\* C17 as stated: RunTask does not return a nil error to the caller while
\* the task is reported RUNNING.
C17_Original ==
  (op = "RunTask" /\ Done /\ ret.err = NilErr) =>
    resps[Len(resps)].body.val.state # "RUNNING"

\* C17, amended: RunTask issues the POST and nothing else, never sleeps, and
\* on a 202 response that decodes returns with a nil error the decoded task,
\* whatever its state.
C17_RunTaskSingleRequest ==
  op = "RunTask" =>
    /\ Len(reqs) <= 1
    /\ sleeps = 0
    /\ \A i \in 1..Len(reqs) : reqs[i].method = "POST"
    /\ (Len(resps) = 1 /\ ~resps[1].err /\ resps[1].status = StatusAccepted
          /\ resps[1].body.kind = "json") =>
         /\ Done
         /\ ret.err = NilErr
         /\ ret.val.guid = resps[1].body.val.guid
         /\ ret.val.state = resps[1].body.val.state

C17_Witness ==
  /\ op = "RunTask"
  /\ Done
  /\ ret.err = NilErr
  /\ ret.val.state = "RUNNING"
  /\ Len(reqs) = 1

\* C18 as stated: no link of a Process returned by Processes has an href
\* that starts with "https".
C18_Original ==
  (op = "Processes" /\ Done /\ ret.err = NilErr) =>
    \A j \in 1..Len(ret.val) :
      \A k \in DOMAIN ret.val[j].links :
        ~HasPrefix(ret.val[j].links[k].href, HTTPS)

\* C18, amended: every Process returned by Processes has its links exactly
\* as they were decoded, an "https" href included.
C18_ProcessLinksAsDecoded ==
  (op = "Processes" /\ Done /\ ret.err = NilErr) =>
    LET decoded == Concat(Len(resps))
    IN  /\ Len(ret.val) = Len(decoded)
        /\ \A j \in 1..Len(ret.val) : ret.val[j].links = decoded[j].links

C18_Witness ==
  /\ op = "Processes"
  /\ Done
  /\ ret.err = NilErr
  /\ \E j \in 1..Len(ret.val) :
       /\ ret.val[j].guid = Res2.guid
       /\ ret.val[j].links["self"].href = HrefSecure

\* C20: an envelope decoded by CreateTask with a state other than RUNNING and
\* FAILED, be it the POST response or a poll response, makes CreateTask
\* return a nil error at once: no sleep and no request follow it.
C20_OtherStatesSucceed ==
  op = "CreateTask" =>
    \A i \in 1..Len(resps) :
      (IsEnvelope(i) /\ StateOf(i) \notin {"RUNNING", "FAILED"}) =>
        /\ Done
        /\ ret.err = NilErr
        /\ i = Len(resps)
        /\ Len(reqs) = i
        /\ sleeps = i - 1

C20_Witness ==
  /\ op = "CreateTask"
  /\ Done
  /\ Len(resps) = 2
  /\ IsEnvelope(2)
  /\ StateOf(2) = "PENDING"
  /\ ret.err = NilErr
  /\ sleeps = 1

Min(a, b) == IF a <= b THEN a ELSE b

\* the two calls are the same operation with the same arguments
SameCall == op # "none" /\ other.op = op /\ other.arg = arg

\* two calls with the same arguments that got the same responses so far have
\* issued the same requests so far, and when they got the same responses
\* altogether they issued the same requests and are at the same result
Agree ==
  SameCall =>
    LET n == Min(Len(resps), Len(other.resps))
    IN  SubSeq(resps, 1, n) = SubSeq(other.resps, 1, n) =>
          /\ \A i \in 1..Min(Min(Len(reqs), Len(other.reqs)), n + 1) :
               reqs[i] = other.reqs[i]
          /\ resps = other.resps =>
               /\ reqs = other.reqs
               /\ (pc = "done" <=> other.pc = "done")
               /\ ret = other.ret

C21_EnvVarEmptyResults ==
  (/\ op = "GetEnvironmentVariables"
   /\ Done
   /\ Len(resps) = 1
   /\ ~resps[1].err
   /\ resps[1].status = StatusOK
   /\ resps[1].body.kind = "json"
   /\ ~resps[1].body.val.var.present) =>
    ret.err = Err("empty results")

\* the key/value pairs of a sequence of pairs
PairSet(ps) == { ps[i] : i \in 1..Len(ps) }

\* C22: ListTasks, answered a first page that has no next link, has issued
\* exactly one request, whose query holds exactly the caller's parameters
\* (every key with every one of its values, nothing else), and returns the
\* resources of that page with a nil error.
C22_OnePageQuery ==
  (op = "ListTasks" /\ Len(resps) >= 1 /\ IsPage(1) /\ NextOf(1) = <<>>) =>
    LET got  == ParseQuery(reqs[1].query)
        want == QueryPairs(arg.query)
    IN  /\ Done
        /\ Len(reqs) = 1
        /\ Len(resps) = 1
        /\ Len(got) = Len(want)
        /\ PairSet(got) = PairSet(want)
        /\ ret.err = NilErr
        /\ ret.val = resps[1].body.val.resources

C22_Witness ==
  /\ op = "ListTasks"
  /\ Done
  /\ Len(arg.query) = 2
  /\ Len(reqs) = 1
  /\ reqs[1].query = <<"k", "=", "2", "&", "x", "=", "1">>
  /\ ret.err = NilErr
  /\ ret.val = <<Res1, Res2>>

\* C23: CreateTask has waited once for every RUNNING envelope it decoded and
\* at no other time, every wait the interval the caller gave; every poll GET
\* follows a RUNNING envelope and the one wait after it.
C23_OneFixedWait ==
  op = "CreateTask" =>
    /\ sleeps = RunningCount
    /\ Len(waits) = sleeps
    /\ \A i \in 1..Len(waits) : waits[i] = arg.interval
    /\ \A i \in 2..Len(reqs) :
         /\ reqs[i].method = "GET"
         /\ IsEnvelope(i - 1)
         /\ StateOf(i - 1) = "RUNNING"
    /\ Len(reqs) >= 1 => (Len(reqs) - 1 <= sleeps /\ sleeps <= Len(reqs))
    /\ pc = "sleep" => sleeps = Len(reqs)

C23_Witness ==
  /\ op = "CreateTask"
  /\ arg.interval = 2
  /\ Len(reqs) = MaxRequests
  /\ Len(waits) = MaxRequests - 1
  /\ \A i \in 1..Len(waits) : waits[i] = 2

\* C24: a response to a poll GET of CreateTask with a status other than 200
\* makes CreateTask return an error holding that status; nothing is decoded
\* from it and no request follows.
C24_PollStatusGate ==
  op = "CreateTask" =>
    \A i \in 2..Len(resps) :
      (~resps[i].err /\ resps[i].status # StatusOK) =>
        /\ Done
        /\ ret.err = StatusErr(resps[i].status)
        /\ i = Len(resps)
        /\ Len(reqs) = i

\* response i of CreateTask reached the decoder and is no JSON envelope
BadEnvelope(i) ==
  /\ ~resps[i].err
  /\ i = 1 => resps[i].status = StatusAccepted
  /\ resps[i].body.kind \in {"invalid", "empty"}

\* C25: an envelope that does not parse, in the POST response or in a poll
\* response, makes CreateTask return the parse error at once: no wait and no
\* request follow it.
C25_BadEnvelopeAborts ==
  op = "CreateTask" =>
    \A i \in 1..Len(resps) :
      BadEnvelope(i) =>
        /\ Done
        /\ ret.err = Err("decode")
        /\ i = Len(resps)
        /\ Len(reqs) = i
        /\ sleeps = i - 1

C25_Witness ==
  /\ op = "CreateTask"
  /\ Done
  /\ Len(resps) = 2
  /\ BadEnvelope(2)
  /\ resps[2].body.kind = "invalid"
  /\ ret.err = Err("decode")
  /\ sleeps = 1

\* link h is given and does not parse
Malformed(h) == h # <<>> /\ ~Parse(h).ok

\* the operation goes on from response i by the link the response carries
Uses(i) ==
  CASE op \in ListOps -> IsPage(i)
    [] op = "CreateTask" -> IsEnvelope(i) /\ StateOf(i) = "RUNNING"
    [] op = "GetPackageGuid" ->
         /\ i = 1
         /\ ~resps[i].err
         /\ resps[i].status = StatusOK
         /\ resps[i].body.kind = "json"
    [] OTHER -> FALSE

\* C26: with a base address that does not parse every operation returns the
\* error of the parse and hands no request to the transport; with a next,
\* self or package link that does not parse the operation returns that error
\* (CreateTask after its wait) and the follow-up request is never issued.
C26_UrlErrorFatal ==
  /\ (op # "none" /\ ~Parse(client.addr).ok) =>
       (Done /\ ret.err = Err("url") /\ reqs = <<>>)
  /\ \A i \in 1..Len(resps) :
       (Uses(i) /\ Malformed(Followed(i))) =>
         /\ Len(reqs) = i
         /\ Len(resps) = i
         /\ pc \in {"sleep", "done"}
         /\ pc = "sleep" => op = "CreateTask"
         /\ Done => ret.err = Err("url")

C26_Witness ==
  /\ op = "Processes"
  /\ Done
  /\ Len(resps) = 2
  /\ Uses(2)
  /\ Malformed(Followed(2))
  /\ Len(reqs) = 2
  /\ ret.err = Err("url")

\* every response of the call so far is an envelope that reports RUNNING
AllRunning ==
  \A i \in 1..Len(resps) : IsEnvelope(i) /\ StateOf(i) = "RUNNING"

\* the call is at the bound of the model: it slept after the last request the
\* model lets it issue
AtCap == pc = "sleep" /\ Len(reqs) = MaxRequests

\* C27: CreateTask returns once a response is no RUNNING envelope (a transport
\* error, a status other than 202 on the POST, an envelope that does not
\* decode or reports another state); while every response is a RUNNING envelope
\* it has not returned unless the self link does not parse, and each such
\* response is followed by the next poll, however many came before.
C27_Terminates ==
  /\ [](op = "CreateTask" /\ Len(resps) >= 1 /\ AllRunning /\ Done =>
          /\ Malformed(Followed(Len(resps)))
          /\ ret.err = Err("url"))
  /\ (op = "CreateTask" /\ Len(resps) >= 1 /\ ~AllRunning) ~> Done
  /\ (op = "CreateTask") ~> (Done \/ AtCap)
  /\ \A n \in 1..(MaxRequests - 1) :
       (op = "CreateTask" /\ Len(resps) = n /\ AllRunning) ~>
         (Len(reqs) = n + 1 \/ Done)

C27_Witness ==
  /\ op = "CreateTask"
  /\ Done
  /\ Len(resps) = MaxRequests
  /\ \A i \in 1..(MaxRequests - 1) : IsEnvelope(i) /\ StateOf(i) = "RUNNING"
  /\ IsEnvelope(MaxRequests)
  /\ StateOf(MaxRequests) = ""
  /\ sleeps = MaxRequests - 1
  /\ ret.err = NilErr

\* request r goes to the address h
Targets(r, h) ==
  LET u == Parse(h)
  IN  /\ r.scheme = u.scheme
      /\ r.opaque = u.opaque
      /\ r.host = u.host
      /\ r.path = u.path
      /\ r.query = u.query

\* C28: every poll GET of CreateTask goes to the self link of the envelope
\* decoded last, its scheme made "http" and nothing else changed; and
\* CreateTask does not return a nil error when the state decoded last is
\* RUNNING or FAILED.
C28_PollsLatestSelf ==
  op = "CreateTask" =>
    /\ \A i \in 2..Len(reqs) :
         /\ reqs[i].method = "GET"
         /\ Targets(reqs[i], SchemeOnly(resps[i - 1].body.val.self))
    /\ (Done /\ ret.err = NilErr /\ Len(resps) >= 1) =>
         /\ IsEnvelope(Len(resps))
         /\ StateOf(Len(resps)) \notin {"RUNNING", "FAILED"}

\* C29: GetPackageGuid issues at most two GET requests: the second only after
\* the first was answered 200 with a package link, and to that link with its
\* scheme made "http" and nothing else changed; it returns a nil error only
\* when the second response is 200 with a guid and a download link, and then
\* returns that guid and that link with its scheme made "http".
C29_TwoRequestsInOrder ==
  op = "GetPackageGuid" =>
    /\ Len(reqs) <= 2
    /\ \A i \in 1..Len(reqs) : reqs[i].method = "GET"
    /\ Len(reqs) = 2 =>
         /\ ~resps[1].err
         /\ resps[1].status = StatusOK
         /\ resps[1].body.kind = "json"
         /\ resps[1].body.val.package # <<>>
         /\ Targets(reqs[2], SchemeOnly(resps[1].body.val.package))
    /\ (Done /\ ret.err = NilErr) =>
         /\ Len(resps) = 2
         /\ ~resps[2].err
         /\ resps[2].status = StatusOK
         /\ resps[2].body.kind = "json"
         /\ resps[2].body.val.guid # <<>>
         /\ resps[2].body.val.download # <<>>
         /\ ret.val.guid = resps[2].body.val.guid
         /\ ret.val.dl = SchemeOnly(resps[2].body.val.download)

\* C30: when Processes, ProcessStats, ListTasks or CreateTask issue the
\* request for the next page or the next poll, the body of every earlier
\* response of the call has been closed.
C30_ReleasedBeforeNext ==
  (op \in ListOps \cup {"CreateTask"} /\ pc = "inflight") =>
    \A i \in 1..Len(bodies) : bodies[i].present => bodies[i].closes >= 1

\* the application identifier of a request: what its path holds between
\* "/v3/apps/" and the next "/"
AppsPrefix == <<"/", "v3", "/", "apps", "/">>

AppIdOf(r) ==
  LET rest == Tail0(r.path, Len(AppsPrefix) + 1)
      j    == Index(rest, <<"/">>)
  IN  SubSeq(rest, 1, j - 1)

\* the caller's appGuid, the Client's own when the caller gives none
OrDefault(g) == IF g = <<>> THEN client.appGuid ELSE g

\* C31: the path of the first request of an operation starts with "/v3/apps/"
\* followed by: the Client's app guid for CreateTask; the caller's appGuid,
\* or the Client's when that is empty, for RunTask and
\* GetEnvironmentVariables; the caller's appGuid as it is, the empty one
\* included, for Processes, ListTasks, GetDropletGuid and GetPackageGuid.
\* Processes and ListTasks put it in the path of every request they issue.
C31_AppIdentifier ==
  Len(reqs) >= 1 =>
    /\ op \in {"CreateTask", "RunTask", "GetEnvironmentVariables", "Processes",
                "ListTasks", "GetDropletGuid", "GetPackageGuid"} =>
         HasPrefix(reqs[1].path, AppsPrefix)
    /\ op = "CreateTask" => AppIdOf(reqs[1]) = client.appGuid
    /\ op \in {"RunTask", "GetEnvironmentVariables"} =>
         AppIdOf(reqs[1]) = OrDefault(arg.appGuid)
    /\ op \in {"GetDropletGuid", "GetPackageGuid"} =>
         AppIdOf(reqs[1]) = arg.appGuid
    /\ op \in {"Processes", "ListTasks"} =>
         \A i \in 1..Len(reqs) :
           /\ HasPrefix(reqs[i].path, AppsPrefix)
           /\ AppIdOf(reqs[i]) = arg.appGuid

C31_Witness ==
  /\ op = "GetPackageGuid"
  /\ arg.appGuid = <<>>
  /\ client.appGuid = DefaultApp
  /\ Len(reqs) = 1
  /\ reqs[1].path = <<"/", "v3", "/", "apps", "/", "/", "droplets", "/", "current">>

\* C32: no body is read or closed after it was closed: no body has been read
\* late or closed twice, and when the operation has returned every body the
\* transport gave has been closed exactly once.
C32_NoUseAfterClose ==
  \A i \in 1..Len(bodies) :
    bodies[i].present =>
      /\ ~bodies[i].late
      /\ bodies[i].closes <= 1
      /\ Done => bodies[i].closes = 1

====
